---- MODULE Spec2Model ----
(***************************************************************************)
(* Model of the negotiation engine of amd-ai-scheduler:                    *)
(*   src/participant_agent.py  (slot generator, conflict checker,          *)
(*                              preference score, proposal evaluation)     *)
(*   src/negotiator_agent.py   (two-phase negotiation, consensus           *)
(*                              aggregator, scoring, oracle selection)     *)
(*   src/mock_data.py          (stored preference profiles)                *)
(*                                                                         *)
(* Time.  A timestamp is the ISO text the code passes around; it is        *)
(* modelled as [loc, off]: loc = minutes since 00:00 of the target date    *)
(* on the local clock the text shows, off = the UTC offset in minutes.     *)
(* Two texts are equal iff both fields are equal; the instant is           *)
(* loc - off.                                                              *)
(*                                                                         *)
(* Scores.  Floats are modelled exactly as integers: a preference score    *)
(* p is kept as 1000*p; consensus and fairness means as 1000*Lcm*mean,     *)
(* where Lcm is a common multiple of every possible participant count;     *)
(* overall_score as 10*1000*Lcm*score.                                     *)
(***************************************************************************)
EXTENDS Integers, Sequences, FiniteSets, TLC

VARIABLES
    participants,        \* negotiate_meeting argument: list of ParticipantAgent
    request,             \* parsed email + Duration_mins of the meeting request
    pc,                  \* position of negotiate_meeting
    initial_result,      \* result of _evaluate_specific_time
    all_available_slots, \* dict email -> slot list in _find_alternative_slots
    common_slots,        \* result of _find_common_time_slots
    scored_slots,        \* scored_slots of _find_alternative_slots, before the sort
    alternative_slots,   \* result of _find_alternative_slots (ranked, top 10)
    selected_index,      \* index chosen in _negotiate_best_slot (-1: none)
    result,              \* the response dict negotiate_meeting returns
    slotGenCalls,        \* number of find_available_slots invocations in this run
    aggregatorCalls,     \* number of _find_common_time_slots invocations in this run
    hash_seed,           \* str hash salt of the process of this run (0: not drawn yet)
    oracle,              \* what the reasoning oracle did in this run
    run,                 \* 1 = first negotiation, 2 = repeated on the same inputs
    prevResult,          \* response of the first negotiation
    candidate,           \* slot argument of a method called on its own
    returned,            \* what that method returned
    meeting_request,     \* schedule_meeting argument: the request as received
    response,            \* the dict schedule_meeting returns
    business_metadata    \* metadata_framework._business_metadata, the process-wide collector

vars == <<participants, request, pc, initial_result, all_available_slots,
          common_slots, scored_slots, alternative_slots, selected_index, result,
          slotGenCalls, aggregatorCalls, hash_seed, oracle, run, prevResult, candidate, returned, meeting_request, response, business_metadata>>

----------------------------------------------------------------------------
(* Bounds of the model *)

MaxParticipants == 3
MaxOracleNumber == 11
MaxListLen == 2
MaxAttendees == 2
NumBuckets == 37

----------------------------------------------------------------------------
(* Program constants *)

BusinessStartHour == 9
BusinessEndHour == 18
SlotStepMinutes == 15
DefaultBufferMinutes == 15
MaxAlternatives == 10
TopK == 5
IST == 330

----------------------------------------------------------------------------
(* Timestamps *)

TS(l, o) == [loc |-> l, off |-> o]

Instant(t) == t.loc - t.off

HourOf(t) == (t.loc \div 60) % 24

\* datetime + timedelta(minutes=m)
AddMinutes(t, m) == [loc |-> t.loc + m, off |-> t.off]

\* The sequence f[1..n] as an explicit tuple (each element evaluated once)
Tuple(f, n) == SubSeq(f, 1, n)

Min(a, b) == IF a <= b THEN a ELSE b
Max(a, b) == IF a >= b THEN a ELSE b

----------------------------------------------------------------------------
(* Calendar events and stored preferences *)

\* A well-formed calendar event: StartTime/EndTime are ISO texts
Event(s, e, o) == [ok |-> TRUE, StartTime |-> TS(s, o), EndTime |-> TS(e, o)]

\* An event whose StartTime cannot be parsed: datetime.fromisoformat raises
BadEvent == [ok |-> FALSE, StartTime |-> TS(0, 0), EndTime |-> TS(0, 0)]

\* mock_data.USER_PREFERENCES; an unknown email gets the coordinator's defaults.
\* seniority_weight is kept in tenths, timezone as the zone's UTC offset.
UserPreferences(email) ==
    CASE email = "userthree" ->
           [preferred_times |-> {"morning"}, buffer_minutes |-> 15,
            timezone |-> IST, avoid_lunch |-> TRUE, seniority_weight |-> 7]
      [] email = "userone" ->
           [preferred_times |-> {"morning", "afternoon"}, buffer_minutes |-> 10,
            timezone |-> IST, avoid_lunch |-> TRUE, seniority_weight |-> 6]
      [] email = "usertwo" ->
           [preferred_times |-> {"afternoon"}, buffer_minutes |-> 20,
            timezone |-> IST, avoid_lunch |-> FALSE, seniority_weight |-> 5]
      [] OTHER ->
           [preferred_times |-> {"morning", "afternoon"},
            buffer_minutes |-> DefaultBufferMinutes,
            timezone |-> IST, avoid_lunch |-> TRUE, seniority_weight |-> 5]

\* ParticipantAgent.__init__
ParticipantAgent(email, calendar_data, preferences) ==
    [email |-> email, calendar |-> calendar_data, preferences |-> preferences]

----------------------------------------------------------------------------
(* participant_agent.py *)

\* Mutant: the buffer is left out of the overlap test
OverlapsNoBuffer(event, start_time, end_time, buffer_mins) ==
    ~(Instant(end_time) <= Instant(event.StartTime)
      \/ Instant(start_time) >= Instant(event.EndTime))

\* Mutant: touching intervals count as overlapping
OverlapsClosed(event, start_time, end_time, buffer_mins) ==
    ~(Instant(end_time) + buffer_mins < Instant(event.StartTime)
      \/ Instant(start_time) - buffer_mins > Instant(event.EndTime))

\* The overlap test of _has_conflict for one event, on instants
Overlaps(event, start_time, end_time, buffer_mins) ==
    LET buffered_start == Instant(start_time) - buffer_mins
        buffered_end   == Instant(end_time) + buffer_mins
    IN ~(buffered_end <= Instant(event.StartTime)
         \/ buffered_start >= Instant(event.EndTime))

\* Mutant: only the first event of the calendar is examined
HasConflictFirstOnly(p, start_time, end_time) ==
    LET cal == p.calendar
    IN IF cal = <<>> THEN "free"
       ELSE IF ~cal[1].ok THEN "raise"
       ELSE IF Overlaps(cal[1], start_time, end_time, p.preferences.buffer_minutes)
            THEN "conflict"
       ELSE "free"

\* ParticipantAgent._has_conflict: walks the calendar in order; returns at the
\* first overlapping event, raises at the first event it cannot parse.
\* Result: "conflict", "free" or "raise".
HasConflict(p, start_time, end_time) ==
    LET cal  == p.calendar
        hits == {i \in 1..Len(cal) :
                    \/ ~cal[i].ok
                    \/ Overlaps(cal[i], start_time, end_time,
                                p.preferences.buffer_minutes)}
    IN IF hits = {} THEN "free"
       ELSE LET first == CHOOSE i \in hits : \A j \in hits : i <= j
            IN IF cal[first].ok THEN "conflict" ELSE "raise"

\* Mutant: the score is returned without max(0, min(1, score))
CalculatePreferenceScoreUnclamped(p, start_time) ==
    LET hour == HourOf(start_time)
        pt   == p.preferences.preferred_times
        bonus == IF "morning" \in pt /\ 9 <= hour /\ hour < 12 THEN 3
                 ELSE IF "afternoon" \in pt /\ 13 <= hour /\ hour < 17 THEN 3
                 ELSE IF "evening" \in pt /\ 17 <= hour /\ hour < 20 THEN 2
                 ELSE 0
        lunch == IF p.preferences.avoid_lunch /\ 12 <= hour /\ hour < 14
                 THEN 4 ELSE 0
        score == (5 + bonus - lunch) * (70 + 6 * p.preferences.seniority_weight)
    IN score

\* ParticipantAgent._calculate_preference_score, as 1000 * score
CalculatePreferenceScore(p, start_time) ==
    LET hour == HourOf(start_time)
        pt   == p.preferences.preferred_times
        bonus == IF "morning" \in pt /\ 9 <= hour /\ hour < 12 THEN 3
                 ELSE IF "afternoon" \in pt /\ 13 <= hour /\ hour < 17 THEN 3
                 ELSE IF "evening" \in pt /\ 17 <= hour /\ hour < 20 THEN 2
                 ELSE 0
        lunch == IF p.preferences.avoid_lunch /\ 12 <= hour /\ hour < 14
                 THEN 4 ELSE 0
        score == (5 + bonus - lunch) * (70 + 6 * p.preferences.seniority_weight)
    IN Max(0, Min(1000, score))

\* Stable descending sort of <<key, value>> pairs on the key
RECURSIVE SortPairsDescending(_)
SortPairsDescending(ps) ==
    IF ps = <<>> THEN <<>>
    ELSE LET top == CHOOSE k \in {ps[i][1] : i \in 1..Len(ps)} :
                       \A i \in 1..Len(ps) : ps[i][1] <= k
         IN SelectSeq(ps, LAMBDA x : x[1] = top)
            \o SortPairsDescending(SelectSeq(ps, LAMBDA x : x[1] # top))

\* sorted(seq, key=lambda x: x[key], reverse=True): descending, stable
SortedDescending(seq, key) ==
    LET n == Len(seq)
        sorted == SortPairsDescending(
                      Tuple([i \in 1..n |-> <<seq[i][key], seq[i]>>], n))
    IN Tuple([i \in 1..n |-> sorted[i][2]], n)

\* Mutant: the loop stops before a slot that ends exactly at 18:00
GridSizeStrict(duration_mins) ==
    LET window == (BusinessEndHour - BusinessStartHour) * 60
    IN IF duration_mins >= window THEN 0
       ELSE (window - duration_mins - 1) \div SlotStepMinutes + 1

\* Number of iterations of the while loop of find_available_slots
GridSize(duration_mins) ==
    LET window == (BusinessEndHour - BusinessStartHour) * 60
    IN IF duration_mins > window THEN 0
       ELSE (window - duration_mins) \div SlotStepMinutes + 1

\* ParticipantAgent.find_available_slots.  date_ok = FALSE: strptime raises.
\* Result: [raised, slots]
FindAvailableSlots(p, date_ok, duration_mins) ==
    LET n == GridSize(duration_mins)
        StartOf(k) == TS(BusinessStartHour * 60 + SlotStepMinutes * (k - 1),
                         p.preferences.timezone)
        grid == Tuple([k \in 1..n |->
                   [status |-> HasConflict(p, StartOf(k),
                                           AddMinutes(StartOf(k), duration_mins)),
                    slot |-> [start_time |-> StartOf(k),
                              end_time |-> AddMinutes(StartOf(k), duration_mins),
                              preference_score |->
                                  CalculatePreferenceScore(p, StartOf(k)),
                              participant |-> p.email]]], n)
        free == SelectSeq(grid, LAMBDA g : g.status = "free")
        available_slots == Tuple([i \in 1..Len(free) |-> free[i].slot], Len(free))
    IN IF ~date_ok \/ \E k \in 1..n : grid[k].status = "raise"
       THEN [raised |-> TRUE, slots |-> <<>>]
       ELSE [raised |-> FALSE,
             slots |-> SortedDescending(available_slots, "preference_score")]

\* An evaluation that raised instead of returning
RaisedEvaluation ==
    [raised |-> TRUE, decision |-> "NONE", reason |-> "exception",
     preference_score |-> 0, slotgen |-> 0]

\* evaluate_proposal, lines 99-134: the proposal conflicts with the calendar.
\* The loop that names the conflicting events parses every event (and raises
\* on one it cannot parse); _suggest_alternatives then calls
\* find_available_slots once.
ConflictBranch(p, proposed_slot) ==
    IF \E i \in 1..Len(p.calendar) : ~p.calendar[i].ok THEN RaisedEvaluation
    ELSE [raised |-> FALSE, decision |-> "REJECT", reason |-> "schedule_conflict",
          preference_score |-> 0, slotgen |-> 1]

\* Mutant: alternatives are suggested for every evaluated proposal
PreferenceBranchSuggesting(p, proposed_slot) ==
    LET preference_score == CalculatePreferenceScore(p, proposed_slot.start_time)
    IN [raised |-> FALSE,
        decision |-> IF preference_score >= 700 THEN "ACCEPT"
                     ELSE IF preference_score >= 400 THEN "CONDITIONAL_ACCEPT"
                     ELSE "REJECT",
        reason |-> "preference_based",
        preference_score |-> preference_score,
        slotgen |-> 1]

\* evaluate_proposal, lines 136-187: no conflict, decide on the preference score
PreferenceBranch(p, proposed_slot) ==
    LET preference_score == CalculatePreferenceScore(p, proposed_slot.start_time)
    IN [raised |-> FALSE,
        decision |-> IF preference_score >= 700 THEN "ACCEPT"
                     ELSE IF preference_score >= 400 THEN "CONDITIONAL_ACCEPT"
                     ELSE "REJECT",
        reason |-> "preference_based",
        preference_score |-> preference_score,
        slotgen |-> 0]

\* ParticipantAgent.evaluate_proposal.
\* Result: [raised, decision, reason, preference_score, slotgen] where slotgen
\* counts the find_available_slots calls made through _suggest_alternatives.
EvaluateProposal(p, proposed_slot) ==
    LET c == HasConflict(p, proposed_slot.start_time, proposed_slot.end_time)
    IN IF c = "raise" THEN RaisedEvaluation
       ELSE IF c = "conflict" THEN ConflictBranch(p, proposed_slot)
       ELSE PreferenceBranch(p, proposed_slot)

----------------------------------------------------------------------------
(* negotiator_agent.py: helpers *)

RECURSIVE Factorial(_)
Factorial(n) == IF n <= 1 THEN 1 ELSE n * Factorial(n - 1)

\* Common multiple of every participant count: means stay integers
Lcm == Factorial(MaxParticipants)

RECURSIVE SumSeq(_)
SumSeq(seq) == IF seq = <<>> THEN 0 ELSE Head(seq) + SumSeq(Tail(seq))

\* seq[:n]
Prefix(seq, n) == SubSeq(seq, 1, Min(n, Len(seq)))

\* The orders in which the elements of a list can be passed
Reorderings(seq) ==
    { [i \in 1..Len(seq) |-> seq[f[i]]] :
      f \in { g \in [1..Len(seq) -> 1..Len(seq)] :
                 \A i, j \in 1..Len(seq) : g[i] = g[j] => i = j } }

\* The value None for a requested time / a scheduled slot
NoTime == TS(0 - 1, 0)
NoRequestedTime == [present |-> FALSE, start |-> NoTime, end |-> NoTime]
NoSlot == [start_time |-> NoTime, end_time |-> NoTime]

\* NegotiatorAgent._build_requested_time.  suggested_time < 0: the email gave
\* no time; date_ok = FALSE: strptime raises and the except branch returns None.
\* The requested time is always localized in Asia/Kolkata.
BuildRequestedTime(req) ==
    IF req.suggested_time < 0 \/ ~req.date_ok THEN NoRequestedTime
    ELSE [present |-> TRUE,
          start |-> TS(req.suggested_time, IST),
          end |-> TS(req.suggested_time + req.Duration_mins, IST)]

\* NegotiatorAgent._evaluate_specific_time
EvaluateSpecificTime(parts, requested_time) ==
    LET slot == [start_time |-> requested_time.start,
                 end_time |-> requested_time.end]
        raw == Tuple([i \in 1..Len(parts) |-> EvaluateProposal(parts[i], slot)],
                     Len(parts))
        evaluations ==
            Tuple([i \in 1..Len(parts) |->
                IF raw[i].raised
                THEN [decision |-> "REJECT", reason |-> "evaluation_failed",
                      preference_score |-> 0, participant |-> parts[i].email]
                ELSE [decision |-> raw[i].decision, reason |-> raw[i].reason,
                      preference_score |-> raw[i].preference_score,
                      participant |-> parts[i].email]], Len(parts))
        rejected == SelectSeq(evaluations, LAMBDA e : e.decision = "REJECT")
        conflicts == Tuple([i \in 1..Len(rejected) |->
                              [participant |-> rejected[i].participant,
                               reason |-> rejected[i].reason]], Len(rejected))
    IN [success |-> Len(conflicts) = 0,
        slot |-> slot,
        evaluations |-> evaluations,
        conflicts |-> conflicts,
        \* mean preference score, as 10 * 1000 * Lcm * score
        consensus_score |->
            IF Len(evaluations) = 0 THEN 0
            ELSE 10 * ((SumSeq([i \in 1..Len(evaluations) |->
                                  evaluations[i].preference_score]) * Lcm)
                       \div Len(evaluations)),
        slotgen |-> SumSeq([i \in 1..Len(parts) |-> raw[i].slotgen])]

----------------------------------------------------------------------------
(* Iteration order of a Python set of (start_time, end_time) string tuples.  *)
(* The order follows the elements' hashes, and str hashes are salted per     *)
(* process: the order is a choice the run time makes.  It is modelled as a   *)
(* walk over the buckets of a hash table whose hash depends on hash_seed.    *)

BucketOf(key, seed) ==
    ((key.start_time.loc \div SlotStepMinutes) * seed) % NumBuckets

KeyBefore(a, b) ==
    \/ a.start_time.off < b.start_time.off
    \/ /\ a.start_time.off = b.start_time.off
       /\ \/ a.start_time.loc < b.start_time.loc
          \/ /\ a.start_time.loc = b.start_time.loc
             /\ \/ a.end_time.loc < b.end_time.loc
                \/ /\ a.end_time.loc = b.end_time.loc
                   /\ a.end_time.off <= b.end_time.off

RECURSIVE BucketSeq(_)
BucketSeq(S) ==
    IF S = {} THEN <<>>
    ELSE LET m == CHOOSE x \in S : \A y \in S : KeyBefore(x, y)
         IN <<m>> \o BucketSeq(S \ {m})

RECURSIVE WalkBuckets(_, _, _)
WalkBuckets(S, seed, b) ==
    IF b >= NumBuckets THEN <<>>
    ELSE BucketSeq({k \in S : BucketOf(k, seed) = b}) \o WalkBuckets(S, seed, b + 1)

\* for ... in all_time_slots
SetIterationOrder(S, seed) == WalkBuckets(S, seed, 0)

\* The hash seeds considered: 1 walks the day forwards, NumBuckets - 1
\* backwards, 5 in a scattered order
HashSeeds == {1, 5, NumBuckets - 1}

----------------------------------------------------------------------------
(* negotiator_agent.py: consensus aggregator and scoring *)

SlotKey(s) == [start_time |-> s.start_time, end_time |-> s.end_time]

\* Mutant: a slot is kept when some participant offers it
FindCommonTimeSlotsAny(all_slots, seed) ==
    IF DOMAIN all_slots = {} THEN <<>>
    ELSE LET all_time_slots ==
                 UNION {{SlotKey(all_slots[e][i]) : i \in 1..Len(all_slots[e])} :
                        e \in DOMAIN all_slots}
             WorksForSome(k) ==
                 \E e \in DOMAIN all_slots :
                    \E i \in 1..Len(all_slots[e]) :
                       /\ all_slots[e][i].start_time = k.start_time
                       /\ all_slots[e][i].end_time = k.end_time
         IN SelectSeq(SetIterationOrder(all_time_slots, seed), WorksForSome)

\* Mutant: slots are matched as instants, whatever offset their text carries
FindCommonTimeSlotsByInstant(all_slots, seed) ==
    IF DOMAIN all_slots = {} THEN <<>>
    ELSE LET all_time_slots ==
                 UNION {{SlotKey(all_slots[e][i]) : i \in 1..Len(all_slots[e])} :
                        e \in DOMAIN all_slots}
             WorksForAll(k) ==
                 \A e \in DOMAIN all_slots :
                    \E i \in 1..Len(all_slots[e]) :
                       /\ Instant(all_slots[e][i].start_time) = Instant(k.start_time)
                       /\ Instant(all_slots[e][i].end_time) = Instant(k.end_time)
         IN SelectSeq(SetIterationOrder(all_time_slots, seed), WorksForAll)

\* NegotiatorAgent._find_common_time_slots.  all_slots: dict email -> list
FindCommonTimeSlots(all_slots, seed) ==
    IF DOMAIN all_slots = {} THEN <<>>
    ELSE LET all_time_slots ==
                 UNION {{SlotKey(all_slots[e][i]) : i \in 1..Len(all_slots[e])} :
                        e \in DOMAIN all_slots}
             WorksForAll(k) ==
                 \A e \in DOMAIN all_slots :
                    \E i \in 1..Len(all_slots[e]) :
                       /\ all_slots[e][i].start_time = k.start_time
                       /\ all_slots[e][i].end_time = k.end_time
         IN SelectSeq(SetIterationOrder(all_time_slots, seed), WorksForAll)

\* NegotiatorAgent._calculate_consensus_score: [score, slotgen];
\* score is 1000 * Lcm * mean; a participant whose evaluation raises is skipped
CalculateConsensusScore(parts, slot) ==
    LET raw == Tuple([i \in 1..Len(parts) |-> EvaluateProposal(parts[i], slot)],
                     Len(parts))
        valid == SelectSeq(raw, LAMBDA e : ~e.raised)
        total_score == SumSeq([i \in 1..Len(valid) |-> valid[i].preference_score])
    IN [score |-> IF Len(valid) > 0 THEN (total_score * Lcm) \div Len(valid) ELSE 0,
        slotgen |-> SumSeq([i \in 1..Len(raw) |-> raw[i].slotgen])]

\* The tier of one local hour, as 1000 * score
TimezoneTier(hour) ==
    IF 9 <= hour /\ hour <= 17 THEN 1000
    ELSE IF 8 <= hour /\ hour <= 18 THEN 800
    ELSE IF 7 <= hour /\ hour <= 19 THEN 600
    ELSE 200

\* NegotiatorAgent._calculate_timezone_fairness, as 1000 * Lcm * mean
CalculateTimezoneFairness(parts, slot) ==
    LET LocalHour(p) ==
            ((Instant(slot.start_time) + p.preferences.timezone) \div 60) % 24
        timezone_scores == [i \in 1..Len(parts) |-> TimezoneTier(LocalHour(parts[i]))]
    IN IF Len(parts) > 0 THEN (SumSeq(timezone_scores) * Lcm) \div Len(parts)
       ELSE 500 * Lcm

\* Mutant: a participant whose find_available_slots raised gets no entry
AllAvailableSlotsSkipFailed(parts, date_ok, duration_mins) ==
    [e \in {parts[i].email : i \in {j \in 1..Len(parts) :
                ~FindAvailableSlots(parts[j], date_ok, duration_mins).raised}} |->
        LET last == CHOOSE i \in 1..Len(parts) :
                       /\ parts[i].email = e
                       /\ \A j \in 1..Len(parts) : parts[j].email = e => j <= i
        IN FindAvailableSlots(parts[last], date_ok, duration_mins).slots]

\* The dict all_available_slots after the collection loop of
\* _find_alternative_slots: a later participant with the same email overwrites
AllAvailableSlots(parts, date_ok, duration_mins) ==
    [e \in {parts[i].email : i \in 1..Len(parts)} |->
        LET last == CHOOSE i \in 1..Len(parts) :
                       /\ parts[i].email = e
                       /\ \A j \in 1..Len(parts) : parts[j].email = e => j <= i
        IN FindAvailableSlots(parts[last], date_ok, duration_mins).slots]

\* The scoring loop of _find_alternative_slots; overall_score is
\* 10 * 1000 * Lcm * score.  slotgen: the find_available_slots calls made by
\* the evaluations of that slot.
ScoreOneSlot(parts, slot) ==
    LET c == CalculateConsensusScore(parts, slot)
        f == CalculateTimezoneFairness(parts, slot)
    IN [start_time |-> slot.start_time,
        end_time |-> slot.end_time,
        consensus_score |-> c.score,
        timezone_fairness |-> f,
        overall_score |-> c.score * 7 + f * 3,
        slotgen |-> c.slotgen]

ScoreSlots(parts, common) ==
    Tuple([i \in 1..Len(common) |-> ScoreOneSlot(parts, common[i])], Len(common))

ScoredSlot(x) ==
    [start_time |-> x.start_time, end_time |-> x.end_time,
     consensus_score |-> x.consensus_score,
     timezone_fairness |-> x.timezone_fairness,
     overall_score |-> x.overall_score]

\* Mutant: the first ten scored slots in scoring order, without the sort
RankAlternativesUnsorted(scored) ==
    LET n == Min(MaxAlternatives, Len(scored))
    IN Tuple([i \in 1..n |-> ScoredSlot(scored[i])], n)

\* return sorted(scored_slots, key=overall_score, reverse=True)[:10]
RankAlternatives(scored) ==
    LET sorted == SortedDescending(scored, "overall_score")
        n == Min(MaxAlternatives, Len(sorted))
    IN Tuple([i \in 1..n |-> ScoredSlot(sorted[i])], n)

----------------------------------------------------------------------------
(* negotiator_agent.py: selection and responses *)

\* What the reasoning oracle does: it raises, or it answers with a text whose
\* first number is `number` (-1: the text holds no number)
OracleRaises == [kind |-> "raise", number |-> 0 - 1]
OracleText(n) == [kind |-> "text", number |-> n]
NoOracle == [kind |-> "none", number |-> 0 - 1]
OracleOutcomes ==
    {OracleRaises} \cup {OracleText(n) : n \in {0 - 1, 0, TopK, MaxOracleNumber}}

\* Mutant: without a number in the answer, the last option is taken
ParseLlmSelectionLast(llm_response, max_options) ==
    IF llm_response.number >= 0 THEN Min(llm_response.number, max_options - 1)
    ELSE max_options - 1

\* NegotiatorAgent._parse_llm_selection
ParseLlmSelection(llm_response, max_options) ==
    IF llm_response.number >= 0 THEN Min(llm_response.number, max_options - 1)
    ELSE 0

\* The try/except of _negotiate_best_slot
SelectedIndex(orc, alternatives) ==
    IF orc.kind = "raise" THEN 0
    ELSE ParseLlmSelection(orc, Len(alternatives))

\* NegotiatorAgent._negotiate_best_slot (alternatives is not empty)
NegotiateBestSlot(parts, alternatives, orc) ==
    LET index == SelectedIndex(orc, alternatives)
        best_slot == alternatives[index + 1]
        raw == Tuple([i \in 1..Len(parts) |-> EvaluateProposal(parts[i], best_slot)],
                     Len(parts))
        final_evaluations ==
            Tuple([i \in 1..Len(parts) |->
                IF raw[i].raised
                THEN [decision |-> "ACCEPT", reason |-> "default_accept",
                      preference_score |-> 500, participant |-> parts[i].email]
                ELSE [decision |-> raw[i].decision, reason |-> raw[i].reason,
                      preference_score |-> raw[i].preference_score,
                      participant |-> parts[i].email]], Len(parts))
    IN [success |-> TRUE,
        slot |-> SlotKey(best_slot),
        evaluations |-> final_evaluations,
        conflicts |-> <<>>,
        consensus_score |-> best_slot.overall_score,
        selection_reasoning |-> orc,
        index |-> index,
        slotgen |-> SumSeq([i \in 1..Len(parts) |-> raw[i].slotgen])]

\* NegotiatorAgent._create_success_response
CreateSuccessResponse(res, alternatives, reasoning) ==
    [success |-> TRUE,
     scheduled_slot |-> SlotKey(res.slot),
     alternatives_considered |->
        Tuple([i \in 1..Min(TopK, Len(alternatives)) |->
                  [start_time |-> alternatives[i].start_time,
                   end_time |-> alternatives[i].end_time,
                   overall_score |-> alternatives[i].overall_score]],
              Min(TopK, Len(alternatives))),
     reason |-> "",
     negotiation_summary |->
        [consensus_score |-> res.consensus_score,
         conflicts_resolved |->
            Len(SelectSeq(res.evaluations, LAMBDA e : e.decision = "ACCEPT")),
         total_participants |-> Len(res.evaluations),
         selection_reasoning |-> reasoning]]

\* Mutant: the reason is not put into the response
CreateFailureResponseNoReason(attendees, reason) ==
    [success |-> FALSE,
     scheduled_slot |-> NoSlot,
     alternatives_considered |-> <<>>,
     reason |-> "",
     negotiation_summary |->
        [consensus_score |-> 0,
         conflicts_resolved |-> 0,
         total_participants |-> Len(attendees),
         selection_reasoning |-> [kind |-> "none", number |-> 0 - 1]]]

\* NegotiatorAgent._create_failure_response
CreateFailureResponse(attendees, reason) ==
    [success |-> FALSE,
     scheduled_slot |-> NoSlot,
     alternatives_considered |-> <<>>,
     reason |-> reason,
     negotiation_summary |->
        [consensus_score |-> 0,
         conflicts_resolved |-> 0,
         total_participants |-> Len(attendees),
         selection_reasoning |-> NoOracle]]

\* No response yet
NoResult ==
    [success |-> FALSE, scheduled_slot |-> NoSlot, alternatives_considered |-> <<>>,
     reason |-> "pending",
     negotiation_summary |->
        [consensus_score |-> 0, conflicts_resolved |-> 0, total_participants |-> 0,
         selection_reasoning |-> NoOracle]]

----------------------------------------------------------------------------
(* Inputs *)

Emails == {"remote", "userone", "userthree", "usertwo"}

EmailRank(e) ==
    CASE e = "remote" -> 0 [] e = "userone" -> 1 [] e = "userthree" -> 2 [] OTHER -> 3

\* "remote" has no stored profile: the defaults, in a zone at UTC+0
PreferencesOf(email) ==
    IF email = "remote" THEN [UserPreferences(email) EXCEPT !.timezone = 0]
    ELSE UserPreferences(email)

\* Calendars of the target date (minutes of the day, offset of the text):
\* free all day; busy 09:00-11:00 and 14:00-18:00 IST, the second event
\* written in UTC; busy 11:00-18:00; the 10:00-10:30 event of
\* coordinator_agent's mock calendars followed by an event that cannot be parsed
CalendarChoices ==
    { <<>>,
      <<Event(540, 660, IST), Event(510, 750, 0)>>,
      <<Event(660, 1080, IST)>>,
      <<Event(600, 630, IST), BadEvent>> }

Profiles ==
    {ParticipantAgent(e, c, PreferencesOf(e)) : e \in Emails, c \in CalendarChoices}

\* Participant lists: distinct emails, listed in one fixed order
ParticipantLists ==
    {ps \in UNION {[1..n -> Profiles] : n \in 0..MaxParticipants} :
        \A i, j \in 1..Len(ps) :
            i < j => EmailRank(ps[i].email) < EmailRank(ps[j].email)}

\* What the email parser and the request supply: whether the target date
\* parses, the requested time of day (-1: none), the duration
Requests ==
    { [date_ok |-> TRUE,  suggested_time |-> 0 - 1, Duration_mins |-> 30],
      [date_ok |-> TRUE,  suggested_time |-> 600,   Duration_mins |-> 30],
      [date_ok |-> TRUE,  suggested_time |-> 780,   Duration_mins |-> 60],
      [date_ok |-> FALSE, suggested_time |-> 600,   Duration_mins |-> 30] }

NoInitialResult ==
    [success |-> FALSE, slot |-> NoSlot, evaluations |-> <<>>, conflicts |-> <<>>,
     consensus_score |-> 0]

TerminalStates == {"Accepted", "Done", "Failed"}

\* No request received, no response returned yet
NoMeetingRequest ==
    [From |-> "", Attendees |-> <<>>, Events |-> <<>>, attendees_ok |-> FALSE,
     complete |-> FALSE]
NoResponse ==
    [kind |-> "none", keys |-> {}, Attendees |-> <<>>, EventStart |-> NoTime,
     EventEnd |-> NoTime, success |-> FALSE, reason |-> ""]

\* BusinessMetadata.__init__: nothing recorded.  participant_responses maps a
\* participant id to the last response recorded for it, the one
\* generate_business_summary reads
NoBusinessMetadata ==
    [participant_responses |-> <<>>, available_slots |-> <<>>, selected_slot |-> NoSlot]

\* record_participant, as called by evaluate_proposal for every participant
\* of the list in turn; an evaluation that raises records nothing
RecordParticipants(md, parts, slot) ==
    LET recorded == {i \in 1..Len(parts) : ~EvaluateProposal(parts[i], slot).raised}
        ids == {parts[i].email : i \in recorded}
        Last(e) == CHOOSE i \in recorded :
                      /\ parts[i].email = e
                      /\ \A j \in recorded : parts[j].email = e => j <= i
    IN [md EXCEPT !.participant_responses =
           [e \in DOMAIN md.participant_responses \cup ids |->
               IF e \in ids THEN EvaluateProposal(parts[Last(e)], slot).decision
               ELSE md.participant_responses[e]]]

\* record_slots
RecordSlots(md, slots) ==
    [md EXCEPT !.available_slots =
        Tuple([i \in 1..Len(slots) |-> SlotKey(slots[i])], Len(slots))]

\* record_selection
RecordSelection(md, selected_slot) ==
    [md EXCEPT !.selected_slot = SlotKey(selected_slot)]

----------------------------------------------------------------------------
(* State machine of NegotiatorAgent.negotiate_meeting *)

Init ==
    /\ participants \in ParticipantLists
    /\ request \in Requests
    /\ pc = "Init"
    /\ initial_result = NoInitialResult
    /\ all_available_slots = <<>>
    /\ common_slots = <<>>
    /\ scored_slots = <<>>
    /\ alternative_slots = <<>>
    /\ selected_index = 0 - 1
    /\ result = NoResult
    /\ slotGenCalls = 0
    /\ aggregatorCalls = 0
    /\ hash_seed = 0
    /\ oracle = NoOracle
    /\ run = 1
    /\ prevResult = NoResult
    /\ candidate = NoSlot
    /\ returned = "none"
    /\ meeting_request = NoMeetingRequest
    /\ response = NoResponse
    /\ business_metadata = NoBusinessMetadata

\* Lines 18-33: parse the email, build the requested time, branch on it
Start ==
    /\ pc = "Init"
    /\ pc' = IF BuildRequestedTime(request).present
             THEN "EvaluateRequested" ELSE "SearchAlternatives"
    /\ UNCHANGED <<participants, request, initial_result, all_available_slots,
                   common_slots, scored_slots, alternative_slots, selected_index, result,
                   slotGenCalls, aggregatorCalls, hash_seed, oracle, run, prevResult, candidate, returned, meeting_request, response, business_metadata>>

\* The part of _evaluate_specific_time's result the caller keeps
InitialResult(parts, requested_time) ==
    LET r == EvaluateSpecificTime(parts, requested_time)
    IN [success |-> r.success, slot |-> r.slot, evaluations |-> r.evaluations,
        conflicts |-> r.conflicts, consensus_score |-> r.consensus_score]

\* Lines 43-65: evaluate the requested time; on success return the response
EvaluateRequested ==
    /\ pc = "EvaluateRequested"
    /\ initial_result' = InitialResult(participants, BuildRequestedTime(request))
    /\ slotGenCalls' = slotGenCalls
          + EvaluateSpecificTime(participants, BuildRequestedTime(request)).slotgen
    /\ IF initial_result'.success
       THEN /\ pc' = "Accepted"
            /\ result' = CreateSuccessResponse(initial_result', <<>>, NoOracle)
       ELSE /\ pc' = "RequestedConflict"
            /\ result' = result
    /\ business_metadata' =
          IF initial_result'.success
          THEN RecordSelection(
                  RecordParticipants(business_metadata, participants,
                                     initial_result'.slot),
                  initial_result'.slot)
          ELSE RecordParticipants(business_metadata, participants, initial_result'.slot)
    /\ UNCHANGED <<participants, request, all_available_slots, common_slots,
                   scored_slots, alternative_slots, selected_index, aggregatorCalls, hash_seed,
                   oracle, run, prevResult, candidate, returned, meeting_request, response>>

\* Lines 67-84: record who conflicts, go on to the alternatives
AnalyzeConflicts ==
    /\ pc = "RequestedConflict"
    /\ pc' = "SearchAlternatives"
    /\ UNCHANGED <<participants, request, initial_result, all_available_slots,
                   common_slots, scored_slots, alternative_slots, selected_index, result,
                   slotGenCalls, aggregatorCalls, hash_seed, oracle, run, prevResult, candidate, returned, meeting_request, response, business_metadata>>

\* Line 87: _find_alternative_slots (collect, intersect, score, rank).
\* slotGenCalls: one find_available_slots call per participant, plus those
\* made by the evaluations while scoring.
SearchAlternatives ==
    /\ pc = "SearchAlternatives"
    /\ all_available_slots' =
          AllAvailableSlots(participants, request.date_ok, request.Duration_mins)
    /\ hash_seed' \in HashSeeds
    /\ common_slots' = FindCommonTimeSlots(all_available_slots', hash_seed')
    /\ scored_slots' = ScoreSlots(participants, common_slots')
    /\ alternative_slots' = RankAlternatives(scored_slots')
    /\ slotGenCalls' = slotGenCalls + Len(participants)
          + SumSeq(Tuple([i \in 1..Len(scored_slots') |-> scored_slots'[i].slotgen],
                         Len(scored_slots')))
    /\ aggregatorCalls' = aggregatorCalls + 1
    /\ pc' = IF alternative_slots' = <<>> THEN "NoAlternatives"
             ELSE "AlternativesFound"
    /\ business_metadata' =
          IF common_slots' = <<>> THEN business_metadata
          ELSE RecordParticipants(business_metadata, participants,
                                  common_slots'[Len(common_slots')])
    /\ UNCHANGED <<participants, request, initial_result, selected_index, result,
                   oracle, run, prevResult, candidate, returned, meeting_request, response>>

\* Mutant: with nothing found the search is started again
FailNoAlternativesRetry ==
    /\ pc = "NoAlternatives"
    /\ pc' = "SearchAlternatives"
    /\ UNCHANGED <<participants, request, initial_result, all_available_slots,
                   common_slots, scored_slots, alternative_slots, selected_index,
                   result, slotGenCalls, aggregatorCalls, hash_seed, oracle, run,
                   prevResult, candidate, returned, meeting_request, response, business_metadata>>

\* Lines 89-97: nothing found, return the failure response
FailNoAlternatives ==
    /\ pc = "NoAlternatives"
    /\ pc' = "Failed"
    /\ result' = CreateFailureResponse(participants, "No available slots found")
    /\ UNCHANGED <<participants, request, initial_result, all_available_slots,
                   common_slots, scored_slots, alternative_slots, selected_index, slotGenCalls,
                   aggregatorCalls, hash_seed, oracle, run, prevResult, candidate, returned, meeting_request, response, business_metadata>>

\* Lines 99-124: summarise the options found
AnalyzeOptions ==
    /\ pc = "AlternativesFound"
    /\ pc' = "SelectBest"
    /\ business_metadata' = RecordSlots(business_metadata, alternative_slots)
    /\ UNCHANGED <<participants, request, initial_result, all_available_slots,
                   common_slots, scored_slots, alternative_slots, selected_index, result,
                   slotGenCalls, aggregatorCalls, hash_seed, oracle, run, prevResult, candidate, returned, meeting_request, response>>

\* The response built from _negotiate_best_slot's result
BestSlotResponse(parts, alternatives, orc) ==
    CreateSuccessResponse(NegotiateBestSlot(parts, alternatives, orc),
                          alternatives, orc)

\* Lines 127-161: _negotiate_best_slot, then the success response
SelectBest ==
    /\ pc = "SelectBest"
    /\ oracle' \in OracleOutcomes
    /\ selected_index' = SelectedIndex(oracle', alternative_slots)
    /\ slotGenCalls' = slotGenCalls
          + NegotiateBestSlot(participants, alternative_slots, oracle').slotgen
    /\ result' = BestSlotResponse(participants, alternative_slots, oracle')
    /\ pc' = "Done"
    /\ business_metadata' =
          RecordSelection(
             RecordParticipants(business_metadata, participants,
                                alternative_slots[selected_index' + 1]),
             alternative_slots[selected_index' + 1])
    /\ UNCHANGED <<participants, request, initial_result, all_available_slots,
                   common_slots, scored_slots, alternative_slots, aggregatorCalls,
                   hash_seed, run, prevResult, candidate, returned, meeting_request, response>>

\* The same request is negotiated a second time (possibly by another process)
Rerun ==
    /\ pc \in TerminalStates
    /\ run = 1
    /\ run' = 2
    /\ prevResult' = result
    /\ pc' = "Init"
    /\ initial_result' = NoInitialResult
    /\ all_available_slots' = <<>>
    /\ common_slots' = <<>>
    /\ scored_slots' = <<>>
    /\ alternative_slots' = <<>>
    /\ selected_index' = 0 - 1
    /\ result' = NoResult
    /\ slotGenCalls' = 0
    /\ aggregatorCalls' = 0
    /\ hash_seed' = 0
    /\ oracle' = NoOracle
    /\ UNCHANGED <<participants, request, candidate, returned, meeting_request, response, business_metadata>>

\* One negotiation
Negotiate ==
    \/ Start
    \/ EvaluateRequested
    \/ AnalyzeConflicts
    \/ SearchAlternatives
    \/ FailNoAlternatives
    \/ AnalyzeOptions
    \/ SelectBest

Next == Negotiate

Spec == Init /\ [][Next]_vars

\* Positions of negotiate_meeting before it returns
RunningStates ==
    {"Init", "EvaluateRequested", "RequestedConflict", "SearchAlternatives",
     "AlternativesFound", "NoAlternatives", "SelectBest"}

\* negotiate_meeting is a coroutine awaited to completion: until it has
\* returned, control moves on to another position. Every action of Negotiate
\* changes pc and one of them is enabled at every position of RunningStates,
\* so this is weak fairness of Next, stated on the position alone
Advance ==
    /\ pc \in RunningStates
    /\ pc' \in RunningStates \cup TerminalStates
    /\ pc' # pc

SpecLive == Spec /\ WF_pc(Advance)

\* A second negotiate_meeting call for the same request with the participants
\* passed in another order; returned keeps what the first search produced
RerunPermuted ==
    /\ pc \in TerminalStates
    /\ run = 1
    /\ run' = 2
    /\ participants' \in Reorderings(participants)
    /\ returned' = [common_slots |-> common_slots, scored_slots |-> scored_slots,
                    alternative_slots |-> alternative_slots]
    /\ prevResult' = result
    /\ pc' = "Init"
    /\ initial_result' = NoInitialResult
    /\ all_available_slots' = <<>>
    /\ common_slots' = <<>>
    /\ scored_slots' = <<>>
    /\ alternative_slots' = <<>>
    /\ selected_index' = 0 - 1
    /\ result' = NoResult
    /\ slotGenCalls' = 0
    /\ aggregatorCalls' = 0
    /\ hash_seed' = 0
    /\ oracle' = NoOracle
    /\ UNCHANGED <<request, candidate, meeting_request, response, business_metadata>>

NextPermuted == Negotiate \/ RerunPermuted

SpecPermuted == Init /\ [][NextPermuted]_vars

\* The negotiation, and a second negotiation of the same request
NextRerun == Negotiate \/ Rerun

SpecRerun == Init /\ [][NextRerun]_vars

----------------------------------------------------------------------------
(* The consensus aggregator on arbitrary slot lists *)

\* 10:00-10:30, 10:00-10:45, 14:00-14:30, and 14:00-14:30 written at UTC+0
AggregatorSlots ==
    { [start_time |-> TS(600, IST), end_time |-> TS(630, IST)],
      [start_time |-> TS(600, IST), end_time |-> TS(645, IST)],
      [start_time |-> TS(840, IST), end_time |-> TS(870, IST)],
      [start_time |-> TS(840, 0),   end_time |-> TS(870, 0)] }

\* Slot lists as find_available_slots returns them, in any order
AggregatorLists(e) ==
    {l \in UNION {[1..n -> {[start_time |-> k.start_time, end_time |-> k.end_time,
                             preference_score |-> 500, participant |-> e] :
                            k \in AggregatorSlots}] : n \in 0..MaxListLen} :
        \A i, j \in 1..Len(l) : i # j => l[i] # l[j]}

AggregatorMaps ==
    UNION {{m \in [D -> UNION {AggregatorLists(e) : e \in D}] :
                \A e \in D : m[e] \in AggregatorLists(e)} :
           D \in SUBSET {"userone", "usertwo"}}

InitAggregate ==
    /\ participants = <<>>
    /\ request = [date_ok |-> TRUE, suggested_time |-> 0 - 1, Duration_mins |-> 30]
    /\ pc = "Aggregate"
    /\ initial_result = NoInitialResult
    /\ all_available_slots \in AggregatorMaps
    /\ common_slots = <<>>
    /\ scored_slots = <<>>
    /\ alternative_slots = <<>>
    /\ selected_index = 0 - 1
    /\ result = NoResult
    /\ slotGenCalls = 0
    /\ aggregatorCalls = 0
    /\ hash_seed = 0
    /\ oracle = NoOracle
    /\ run = 1
    /\ prevResult = NoResult
    /\ candidate = NoSlot
    /\ returned = "none"
    /\ meeting_request = NoMeetingRequest
    /\ response = NoResponse
    /\ business_metadata = NoBusinessMetadata

\* One call of _find_common_time_slots
Aggregate ==
    /\ pc = "Aggregate"
    /\ hash_seed' \in HashSeeds
    /\ common_slots' = FindCommonTimeSlots(all_available_slots, hash_seed')
    /\ aggregatorCalls' = aggregatorCalls + 1
    /\ pc' = "Aggregated"
    /\ UNCHANGED <<participants, request, initial_result, all_available_slots,
                   scored_slots, alternative_slots, selected_index, result,
                   slotGenCalls, oracle, run, prevResult, candidate, returned, meeting_request, response, business_metadata>>

SpecAggregate == InitAggregate /\ [][Aggregate]_vars

----------------------------------------------------------------------------
(* _has_conflict on its own *)

\* Candidates: 10:00-10:30 written at +05:30 and at +00:00 (the same instants),
\* and 10:00-10:30 at +00:00
ConflictCandidates ==
    { [start_time |-> TS(600, IST), end_time |-> TS(630, IST)],
      [start_time |-> TS(270, 0),   end_time |-> TS(300, 0)],
      [start_time |-> TS(600, 0),   end_time |-> TS(630, 0)] }

\* Events around the edges of the first candidate widened by 10, 15 or 20
\* minutes, written at +05:30 or at +00:00
ConflictEvents ==
    { Event(645, 700, IST), Event(644, 700, IST), Event(640, 700, IST),
      Event(500, 585, IST), Event(500, 586, IST), Event(500, 580, IST),
      Event(315, 370, 0),   Event(314, 370, 0),   Event(170, 255, 0),
      Event(170, 256, 0),   Event(610, 620, IST), Event(900, 960, IST) }

ConflictCalendars ==
    UNION {[1..n -> ConflictEvents] : n \in 0..MaxListLen}

ConflictBuffers == {10, DefaultBufferMinutes, 20}

InitConflict ==
    /\ \E c \in ConflictCalendars, b \in ConflictBuffers :
          participants =
             << ParticipantAgent("userone", c,
                   [preferred_times |-> {"morning", "afternoon"},
                    buffer_minutes |-> b, timezone |-> IST,
                    avoid_lunch |-> TRUE, seniority_weight |-> 5]) >>
    /\ request = [date_ok |-> TRUE, suggested_time |-> 0 - 1, Duration_mins |-> 30]
    /\ pc = "HasConflict"
    /\ initial_result = NoInitialResult
    /\ all_available_slots = <<>>
    /\ common_slots = <<>>
    /\ scored_slots = <<>>
    /\ alternative_slots = <<>>
    /\ selected_index = 0 - 1
    /\ result = NoResult
    /\ slotGenCalls = 0
    /\ aggregatorCalls = 0
    /\ hash_seed = 0
    /\ oracle = NoOracle
    /\ run = 1
    /\ prevResult = NoResult
    /\ candidate \in ConflictCandidates
    /\ returned = "none"
    /\ meeting_request = NoMeetingRequest
    /\ response = NoResponse
    /\ business_metadata = NoBusinessMetadata

\* One call of _has_conflict
CheckConflict ==
    /\ pc = "HasConflict"
    /\ returned' = HasConflict(participants[1], candidate.start_time,
                               candidate.end_time)
    /\ pc' = "Returned"
    /\ UNCHANGED <<participants, request, initial_result, all_available_slots,
                   common_slots, scored_slots, alternative_slots, selected_index,
                   result, slotGenCalls, aggregatorCalls, hash_seed, oracle, run,
                   prevResult, candidate, meeting_request, response, business_metadata>>

SpecConflict == InitConflict /\ [][CheckConflict]_vars

\* A second call of _has_conflict for the same candidate, the events of the
\* calendar listed in another order; prevResult keeps what the first returned
CheckReordered ==
    /\ pc = "Returned"
    /\ \E events \in Reorderings(participants[1].calendar) :
          /\ participants' = <<[participants[1] EXCEPT !.calendar = events]>>
          /\ returned' = HasConflict(participants'[1], candidate.start_time,
                                     candidate.end_time)
    /\ prevResult' = returned
    /\ pc' = "ReturnedAgain"
    /\ UNCHANGED <<request, initial_result, all_available_slots,
                   common_slots, scored_slots, alternative_slots, selected_index,
                   result, slotGenCalls, aggregatorCalls, hash_seed, oracle, run,
                   candidate, meeting_request, response, business_metadata>>

NextConflictReordered == CheckConflict \/ CheckReordered

SpecConflictReordered == InitConflict /\ [][NextConflictReordered]_vars

----------------------------------------------------------------------------
\* _calculate_timezone_fairness on its own: participants in several zones and
\* slots starting on every hour from 06:00 to 20:00 IST

MinFairnessHour == 6
MaxFairnessHour == 20

\* UTC offsets of Asia/Kolkata, UTC and America/Bogota
FairnessZones == {IST, 0, 0 - 300}

FairnessAgents ==
    { ParticipantAgent("userone", <<>>,
         [preferred_times |-> {"morning", "afternoon"}, buffer_minutes |-> 15,
          timezone |-> z, avoid_lunch |-> TRUE, seniority_weight |-> 5]) :
      z \in FairnessZones }

FairnessParticipants == UNION { [1..n -> FairnessAgents] : n \in 0..MaxParticipants }

FairnessSlots ==
    { [start_time |-> TS(60 * h, IST), end_time |-> TS(60 * h + 30, IST)] :
      h \in MinFairnessHour..MaxFairnessHour }

InitFairness ==
    /\ participants \in FairnessParticipants
    /\ request = [date_ok |-> TRUE, suggested_time |-> 0 - 1, Duration_mins |-> 30]
    /\ pc = "TimezoneFairness"
    /\ initial_result = NoInitialResult
    /\ all_available_slots = <<>>
    /\ common_slots = <<>>
    /\ scored_slots = <<>>
    /\ alternative_slots = <<>>
    /\ selected_index = 0 - 1
    /\ result = NoResult
    /\ slotGenCalls = 0
    /\ aggregatorCalls = 0
    /\ hash_seed = 0
    /\ oracle = NoOracle
    /\ run = 1
    /\ prevResult = NoResult
    /\ candidate \in FairnessSlots
    /\ returned = "none"
    /\ meeting_request = NoMeetingRequest
    /\ response = NoResponse
    /\ business_metadata = NoBusinessMetadata

\* One call of _calculate_timezone_fairness
ScoreFairness ==
    /\ pc = "TimezoneFairness"
    /\ returned' = CalculateTimezoneFairness(participants, candidate)
    /\ pc' = "FairnessReturned"
    /\ UNCHANGED <<participants, request, initial_result, all_available_slots,
                   common_slots, scored_slots, alternative_slots, selected_index,
                   result, slotGenCalls, aggregatorCalls, hash_seed, oracle, run,
                   prevResult, candidate, meeting_request, response, business_metadata>>

SpecFairness == InitFairness /\ [][ScoreFairness]_vars

----------------------------------------------------------------------------
\* find_available_slots on its own: every profile, durations on and off the
\* 15-minute grid, up to and beyond the nine business hours

SlotDurations == {15, 30, 50, 60, 525, 540, 555, 600}

InitSlots ==
    /\ \E p \in Profiles : participants = <<p>>
    /\ \E d \in SlotDurations, ok \in BOOLEAN :
          request = [date_ok |-> ok, suggested_time |-> 0 - 1, Duration_mins |-> d]
    /\ pc = "FindAvailableSlots"
    /\ initial_result = NoInitialResult
    /\ all_available_slots = <<>>
    /\ common_slots = <<>>
    /\ scored_slots = <<>>
    /\ alternative_slots = <<>>
    /\ selected_index = 0 - 1
    /\ result = NoResult
    /\ slotGenCalls = 0
    /\ aggregatorCalls = 0
    /\ hash_seed = 0
    /\ oracle = NoOracle
    /\ run = 1
    /\ prevResult = NoResult
    /\ candidate = NoSlot
    /\ returned = "none"
    /\ meeting_request = NoMeetingRequest
    /\ response = NoResponse
    /\ business_metadata = NoBusinessMetadata

\* One call of find_available_slots
GenerateSlots ==
    /\ pc = "FindAvailableSlots"
    /\ returned' = FindAvailableSlots(participants[1], request.date_ok,
                                      request.Duration_mins)
    /\ slotGenCalls' = slotGenCalls + 1
    /\ pc' = "SlotsReturned"
    /\ UNCHANGED <<participants, request, initial_result, all_available_slots,
                   common_slots, scored_slots, alternative_slots, selected_index,
                   result, aggregatorCalls, hash_seed, oracle, run,
                   prevResult, candidate, meeting_request, response, business_metadata>>

SpecSlots == InitSlots /\ [][GenerateSlots]_vars

----------------------------------------------------------------------------
\* The scoring of one slot on its own (the body of the scoring loop of
\* _find_alternative_slots), for preference values that reach both clamps

\* A seniority weight of 3.0 takes a preferred hour above 1, one of -2.0 takes
\* every hour below 0; one calendar conflicts at 10:00, one cannot be parsed
ScoringAgents ==
    { ParticipantAgent("userone", <<>>,
         [preferred_times |-> {"morning"}, buffer_minutes |-> 15, timezone |-> IST,
          avoid_lunch |-> FALSE, seniority_weight |-> 30]),
      ParticipantAgent("usertwo", <<>>,
         [preferred_times |-> {"afternoon"}, buffer_minutes |-> 15, timezone |-> IST,
          avoid_lunch |-> TRUE, seniority_weight |-> 0 - 20]),
      ParticipantAgent("userone", <<Event(600, 630, IST)>>, UserPreferences("userone")),
      ParticipantAgent("remote", <<>>, PreferencesOf("remote")),
      ParticipantAgent("userthree", <<BadEvent>>, UserPreferences("userthree")),
      ParticipantAgent("usertwo", <<>>,
         [preferred_times |-> {"evening"}, buffer_minutes |-> 10, timezone |-> 0 - 300,
          avoid_lunch |-> TRUE, seniority_weight |-> 10]) }

ScoringParticipants == UNION { [1..n -> ScoringAgents] : n \in 0..MaxParticipants }

\* Starts at 06:00, 10:00, 11:45, 12:30, 15:00 and 18:00 IST
ScoringSlots ==
    { [start_time |-> TS(m, IST), end_time |-> TS(m + 30, IST)] :
      m \in {360, 600, 705, 750, 900, 1080} }

InitScoring ==
    /\ participants \in ScoringParticipants
    /\ request = [date_ok |-> TRUE, suggested_time |-> 0 - 1, Duration_mins |-> 30]
    /\ pc = "ScoreSlot"
    /\ initial_result = NoInitialResult
    /\ all_available_slots = <<>>
    /\ common_slots = <<>>
    /\ scored_slots = <<>>
    /\ alternative_slots = <<>>
    /\ selected_index = 0 - 1
    /\ result = NoResult
    /\ slotGenCalls = 0
    /\ aggregatorCalls = 0
    /\ hash_seed = 0
    /\ oracle = NoOracle
    /\ run = 1
    /\ prevResult = NoResult
    /\ candidate \in ScoringSlots
    /\ returned = "none"
    /\ meeting_request = NoMeetingRequest
    /\ response = NoResponse
    /\ business_metadata = NoBusinessMetadata

\* One iteration of the scoring loop
ScoreSlot ==
    /\ pc = "ScoreSlot"
    /\ returned' = ScoredSlot(ScoreOneSlot(participants, candidate))
    /\ slotGenCalls' = slotGenCalls + ScoreOneSlot(participants, candidate).slotgen
    /\ pc' = "Scored"
    /\ UNCHANGED <<participants, request, initial_result, all_available_slots,
                   common_slots, scored_slots, alternative_slots, selected_index,
                   result, aggregatorCalls, hash_seed, oracle, run,
                   prevResult, candidate, meeting_request, response, business_metadata>>

SpecScoring == InitScoring /\ [][ScoreSlot]_vars

----------------------------------------------------------------------------
(* coordinator_agent.py *)

\* CoordinatorAgent._get_mock_events_for_user: the calendars of 2025-07-17
GetMockEventsForUser(email) ==
    CASE email = "usertwo" -> << Event(600, 630, IST) >>
      [] email = "userthree" -> << Event(600, 630, IST), Event(780, 840, IST) >>
      [] OTHER -> <<>>

\* CoordinatorAgent._transform_input_format: the From address joins the
\* attendees unless it is empty or already listed; every attendee gets the
\* mock calendar of their address
TransformInputFormat(mr) ==
    LET attendee_emails ==
            IF mr.From # "" /\ \A i \in 1..Len(mr.Attendees) : mr.Attendees[i] # mr.From
            THEN Append(mr.Attendees, mr.From)
            ELSE mr.Attendees
    IN Tuple([i \in 1..Len(attendee_emails) |->
                 [email |-> attendee_emails[i],
                  events |-> GetMockEventsForUser(attendee_emails[i])]],
             Len(attendee_emails))

\* CoordinatorAgent.create_participant_agents
CreateParticipantAgents(attendees_data) ==
    Tuple([i \in 1..Len(attendees_data) |->
              ParticipantAgent(attendees_data[i].email, attendees_data[i].events,
                               UserPreferences(attendees_data[i].email))],
          Len(attendees_data))

\* transformed_request['Attendees'] as the participant agents hold it: each
\* agent's calendar is the attendee's events list itself
TransformedAttendees(parts) ==
    Tuple([i \in 1..Len(parts) |->
              [email |-> parts[i].email, events |-> parts[i].calendar]], Len(parts))

\* Mutant: the new event is appended to the attendee's own list
AppendInPlace(events, new_event) ==
    [appended |-> Append(events, new_event), original |-> Append(events, new_event)]

\* attendee_data['events'].copy() followed by append(new_event): the list the
\* output gets, and the attendee's list after the statement
CopyAndAppend(events, new_event) ==
    [appended |-> Append(events, new_event), original |-> events]

\* BusinessMetadata.generate_business_summary: the lines on the participants'
\* latest responses, on the available options (only if more than one was
\* recorded) and on the final selection
GenerateBusinessSummary(md) ==
    [participant_responses |-> md.participant_responses,
     available_slots |-> IF Len(md.available_slots) > 1 THEN md.available_slots
                         ELSE <<>>,
     selected_slot |-> md.selected_slot]

ResponseKeys ==
    {"Request_id", "Datetime", "Location", "From", "Attendees", "Subject",
     "EmailContent", "EventStart", "EventEnd", "Duration_mins", "MetaData"}

\* CoordinatorAgent._format_success_response_correct_format.
\* raised: a field the response echoes is missing from the request (KeyError);
\* attendees: transformed_request['Attendees'] after the call
FormatSuccessResponse(res, original_request, attendees) ==
    LET scheduled_slot == res.scheduled_slot
        new_event == [ok |-> TRUE, StartTime |-> scheduled_slot.start_time,
                      EndTime |-> scheduled_slot.end_time]
        lists == Tuple([i \in 1..Len(attendees) |->
                           CopyAndAppend(attendees[i].events, new_event)],
                       Len(attendees))
    IN [raised |-> ~original_request.complete,
        attendees |-> Tuple([i \in 1..Len(attendees) |->
                                [email |-> attendees[i].email,
                                 events |-> lists[i].original]], Len(attendees)),
        response |->
           [kind |-> "success", keys |-> ResponseKeys,
            Attendees |-> Tuple([i \in 1..Len(attendees) |->
                                    [email |-> attendees[i].email,
                                     events |-> lists[i].appended]], Len(attendees)),
            EventStart |-> scheduled_slot.start_time,
            EventEnd |-> scheduled_slot.end_time,
            success |-> TRUE,
            reason |-> "Optimal time",
            agent_reasoning_summary |-> GenerateBusinessSummary(business_metadata)]]

\* Mutant: the failure response drops the attendees' events
FormatFailureResponseNoEvents(res, original_request, attendees) ==
    [raised |-> ~original_request.complete,
     attendees |-> attendees,
     response |->
        [kind |-> "failure", keys |-> ResponseKeys \cup {"error"},
         Attendees |-> Tuple([i \in 1..Len(attendees) |->
                                 [email |-> attendees[i].email, events |-> <<>>]],
                             Len(attendees)),
         EventStart |-> NoTime, EventEnd |-> NoTime, success |-> FALSE,
         reason |-> res.reason]]

\* CoordinatorAgent._format_failure_response_correct_format
FormatFailureResponse(res, original_request, attendees) ==
    [raised |-> ~original_request.complete,
     attendees |-> attendees,
     response |->
        [kind |-> "failure", keys |-> ResponseKeys \cup {"error"},
         Attendees |-> Tuple([i \in 1..Len(attendees) |->
                                 [email |-> attendees[i].email,
                                  events |-> attendees[i].events]], Len(attendees)),
         EventStart |-> NoTime, EventEnd |-> NoTime, success |-> FALSE,
         reason |-> res.reason]]

\* Mutant: the error response carries an event start and end
FormatErrorResponseWithSlot(original_request) ==
    [kind |-> "error", keys |-> {"Request_id", "error", "MetaData", "EventStart", "EventEnd"},
     Attendees |-> <<>>, EventStart |-> TS(0, IST), EventEnd |-> TS(0, IST),
     success |-> FALSE, reason |-> "System error"]

\* CoordinatorAgent._format_error_response_correct_format
FormatErrorResponse(original_request) ==
    [kind |-> "error", keys |-> {"Request_id", "error", "MetaData"},
     Attendees |-> <<>>, EventStart |-> NoTime, EventEnd |-> NoTime,
     success |-> FALSE, reason |-> "System error"]

\* schedule_meeting, lines 184-222: format the negotiation result; an
\* exception of the formatting gives the error response
HandleResult(res, original_request, attendees) ==
    LET out == IF res.success
               THEN FormatSuccessResponse(res, original_request, attendees)
               ELSE FormatFailureResponse(res, original_request, attendees)
    IN [attendees |-> out.attendees,
        response |-> IF out.raised THEN FormatErrorResponse(original_request)
                     ELSE out.response]

AttendeeEmails == {"userone", "userthree", "usertwo"}

\* Event lists a request supplies for an attendee: none, or the 14:00-15:00
\* "Client Call" of mock_data.TEST_SCENARIOS
InboundCalendars == { <<>>, <<Event(840, 900, IST)>> }

\* Requests as received: a From address (possibly empty), the attendees'
\* addresses and, in the same order, the events supplied with each of them,
\* whether the Attendees entries are dicts, and whether every field the
\* response echoes is present
MeetingRequests ==
    UNION { { [From |-> f, Attendees |-> a, Events |-> ev,
               attendees_ok |-> k, complete |-> c] :
                f \in AttendeeEmails \cup {""},
                a \in [1..n -> AttendeeEmails],
                ev \in [1..n -> InboundCalendars],
                k \in BOOLEAN, c \in BOOLEAN } : n \in 0..MaxAttendees }

InitCoordinator ==
    /\ participants = <<>>
    /\ request \in Requests
    /\ pc = "Received"
    /\ initial_result = NoInitialResult
    /\ all_available_slots = <<>>
    /\ common_slots = <<>>
    /\ scored_slots = <<>>
    /\ alternative_slots = <<>>
    /\ selected_index = 0 - 1
    /\ result = NoResult
    /\ slotGenCalls = 0
    /\ aggregatorCalls = 0
    /\ hash_seed = 0
    /\ oracle = NoOracle
    /\ run = 1
    /\ prevResult = NoResult
    /\ candidate = NoSlot
    /\ returned = "none"
    /\ meeting_request \in MeetingRequests
    /\ response = NoResponse
    /\ business_metadata = NoBusinessMetadata

\* schedule_meeting, lines 140-181: transform the request, create the agents
\* and hand over to the negotiator; an exception gives the error response
ScheduleMeeting ==
    /\ pc = "Received"
    /\ IF meeting_request.attendees_ok
       THEN /\ participants' =
                  CreateParticipantAgents(TransformInputFormat(meeting_request))
            /\ pc' = "Init"
            /\ response' = response
       ELSE /\ participants' = participants
            /\ pc' = "Responded"
            /\ response' = FormatErrorResponse(meeting_request)
    /\ UNCHANGED <<request, initial_result, all_available_slots, common_slots,
                   scored_slots, alternative_slots, selected_index, result,
                   slotGenCalls, aggregatorCalls, hash_seed, oracle, run,
                   prevResult, candidate, returned, meeting_request, business_metadata>>

\* schedule_meeting, lines 184-222: return the formatted response
Respond ==
    /\ pc \in TerminalStates
    /\ response' = HandleResult(result, meeting_request,
                                TransformedAttendees(participants)).response
    /\ participants' =
          CreateParticipantAgents(
              HandleResult(result, meeting_request,
                           TransformedAttendees(participants)).attendees)
    /\ pc' = "Responded"
    /\ UNCHANGED <<request, initial_result, all_available_slots, common_slots,
                   scored_slots, alternative_slots, selected_index, result,
                   slotGenCalls, aggregatorCalls, hash_seed, oracle, run,
                   prevResult, candidate, returned, meeting_request, business_metadata>>

NextCoordinator == ScheduleMeeting \/ Negotiate \/ Respond

SpecCoordinator == InitCoordinator /\ [][NextCoordinator]_vars

\* Two requests handled one after the other by the same process: complete
\* requests without a From address, for one or two attendees
SequenceRequests ==
    { [From |-> "", Attendees |-> a, Events |-> [i \in 1..Len(a) |-> <<>>],
       attendees_ok |-> TRUE, complete |-> TRUE] :
      a \in { <<"userone">>, <<"usertwo">>, <<"userthree">>, <<"userone", "usertwo">> } }

InitRequests ==
    /\ InitCoordinator
    /\ meeting_request \in SequenceRequests

\* main.receive is called again: the module-level coordinator and the
\* process-wide collector stay, everything local to the call starts afresh
NextRequest ==
    /\ pc = "Responded"
    /\ run = 1
    /\ run' = 2
    /\ meeting_request' \in SequenceRequests
    /\ request' \in Requests
    /\ participants' = <<>>
    /\ pc' = "Received"
    /\ initial_result' = NoInitialResult
    /\ all_available_slots' = <<>>
    /\ common_slots' = <<>>
    /\ scored_slots' = <<>>
    /\ alternative_slots' = <<>>
    /\ selected_index' = 0 - 1
    /\ result' = NoResult
    /\ prevResult' = result
    /\ slotGenCalls' = 0
    /\ aggregatorCalls' = 0
    /\ hash_seed' = 0
    /\ oracle' = NoOracle
    /\ response' = NoResponse
    /\ UNCHANGED <<candidate, returned, business_metadata>>

NextRequests == ScheduleMeeting \/ Negotiate \/ Respond \/ NextRequest

SpecRequests == InitRequests /\ [][NextRequests]_vars

----------------------------------------------------------------------------
(* Properties *)

KeysOf(list) == {SlotKey(list[i]) : i \in 1..Len(list)}

\* No event of p's calendar overlaps the slot widened by p's buffer
FreeOfEvents(p, slot) ==
    \A i \in 1..Len(p.calendar) :
        /\ p.calendar[i].ok
        /\ \/ Instant(slot.end_time) + p.preferences.buffer_minutes
                 <= Instant(p.calendar[i].StartTime)
           \/ Instant(slot.start_time) - p.preferences.buffer_minutes
                 >= Instant(p.calendar[i].EndTime)

FreeForAll(slot) ==
    \A j \in 1..Len(participants) : FreeOfEvents(participants[j], slot)

\* C1: every slot of the consensus set, every scored alternative and the slot
\* scheduled in Done is free of conflicts, after buffer expansion, in the
\* calendar of every participant.
C1_ConsensusSlotsFreeForAll ==
    aggregatorCalls > 0 =>
        /\ \A i \in 1..Len(common_slots) : FreeForAll(common_slots[i])
        /\ \A i \in 1..Len(alternative_slots) : FreeForAll(alternative_slots[i])
        /\ pc = "Done" => FreeForAll(result.scheduled_slot)

C1_Witness ==
    /\ pc = "Done"
    /\ Len(participants) >= 2
    /\ \A j \in 1..Len(participants) : participants[j].calendar # <<>>
    /\ \E j, k \in 1..Len(participants) :
          participants[j].preferences.buffer_minutes
             # participants[k].preferences.buffer_minutes

\* C2: a slot is in the aggregator's result iff it is in every participant's
\* list (exact start/end equality); the result is the empty sequence when
\* there is no such slot, also for an empty map.
C2_ConsensusIsIntersection ==
    aggregatorCalls > 0 =>
        /\ \A k \in KeysOf(common_slots) :
              \A e \in DOMAIN all_available_slots : k \in KeysOf(all_available_slots[e])
        /\ \A k \in UNION {KeysOf(all_available_slots[e]) :
                           e \in DOMAIN all_available_slots} :
              (\A e \in DOMAIN all_available_slots : k \in KeysOf(all_available_slots[e]))
                 => k \in KeysOf(common_slots)
        /\ DOMAIN all_available_slots = {} => common_slots = <<>>
        /\ (\E e \in DOMAIN all_available_slots : all_available_slots[e] = <<>>)
              => common_slots = <<>>
        /\ Cardinality(KeysOf(common_slots)) = Len(common_slots)

\* The example: A free at 10:00-10:30 and 14:00-14:30, B at 14:00-14:30
C2_Witness ==
    /\ pc = "Aggregated"
    /\ DOMAIN all_available_slots = {"userone", "usertwo"}
    /\ KeysOf(all_available_slots["userone"]) =
          { [start_time |-> TS(600, IST), end_time |-> TS(630, IST)],
            [start_time |-> TS(840, IST), end_time |-> TS(870, IST)] }
    /\ KeysOf(all_available_slots["usertwo"]) =
          { [start_time |-> TS(840, IST), end_time |-> TS(870, IST)] }
    /\ common_slots = << [start_time |-> TS(840, IST), end_time |-> TS(870, IST)] >>

RequestedSlot ==
    [start_time |-> BuildRequestedTime(request).start,
     end_time |-> BuildRequestedTime(request).end]

\* C3 (as claimed): the requested time is accepted, and scheduled, exactly
\* when no participant has a calendar conflict with it; the alternatives are
\* searched only if some participant has one.
C3_AcceptedIffNoCalendarConflict ==
    pc \in {"Accepted", "RequestedConflict"} =>
        LET someConflict ==
                \E j \in 1..Len(participants) :
                    HasConflict(participants[j], RequestedSlot.start_time,
                                RequestedSlot.end_time) # "free"
        IN /\ ~someConflict =>
                /\ pc = "Accepted"
                /\ result.success
                /\ result.scheduled_slot = RequestedSlot
           /\ pc = "RequestedConflict" => someConflict

\* C4: a run that ends in Accepted never called the slot generator or the
\* consensus aggregator, and its alternatives list is empty.
C4_FastPathSkipsSearch ==
    pc = "Accepted" =>
        /\ slotGenCalls = 0
        /\ aggregatorCalls = 0
        /\ result.success
        /\ result.alternatives_considered = <<>>

C4_Witness ==
    /\ pc = "Accepted"
    /\ Len(participants) >= 2
    /\ \E j \in 1..Len(participants) : participants[j].calendar # <<>>

InTopK(res) ==
    \E i \in 1..Len(res.alternatives_considered) :
        SlotKey(res.alternatives_considered[i]) = res.scheduled_slot

\* C5 (as claimed): negotiating the same request again gives the same success
\* flag whatever the oracle does in either run, and each run schedules one of
\* its top-K alternatives.
C5_OracleOnlyMovesIndexInTopK ==
    (run = 2 /\ pc \in TerminalStates) =>
        /\ result.success = prevResult.success
        /\ (pc = "Done" => InTopK(result) /\ InTopK(prevResult))

\* C6: an empty consensus set ends in Failed: success = false, a reason that
\* is not empty, no alternatives, no scheduled slot.
C6_NoCommonAvailabilityFails ==
    (aggregatorCalls > 0 /\ common_slots = <<>>) =>
        /\ pc \in {"NoAlternatives", "Failed"}
        /\ pc = "Failed" =>
              /\ ~result.success
              /\ result.reason # ""
              /\ result.reason # "pending"
              /\ result.alternatives_considered = <<>>
              /\ result.scheduled_slot = NoSlot

\* Three participants, each with free slots, with no slot in common
C6_Witness ==
    /\ pc = "Failed"
    /\ Len(participants) = 3
    /\ \A j \in 1..Len(participants) : participants[j].preferences.timezone = IST
    /\ \A e \in DOMAIN all_available_slots : all_available_slots[e] # <<>>

\* C7: when the oracle call fails or its answer holds no number, the slot at
\* index 0 of the ranked list is scheduled, and no scored slot has a higher
\* overall score.
C7_FallbackSelectsIndexZero ==
    (pc = "Done" /\ (oracle.kind = "raise" \/ oracle.number < 0)) =>
        /\ selected_index = 0
        /\ result.scheduled_slot = SlotKey(alternative_slots[1])
        /\ \A i \in 1..Len(scored_slots) :
              scored_slots[i].overall_score <= alternative_slots[1].overall_score

C7_Witness ==
    /\ pc = "Done"
    /\ oracle.kind = "raise"
    /\ \E i \in 1..Len(alternative_slots) :
          alternative_slots[i].overall_score < alternative_slots[1].overall_score

\* C8 (as claimed): negotiating the same request twice, with the oracle out of
\* service both times, gives the same response.
C8_SameInputsSameResult ==
    (/\ run = 2
     /\ pc \in TerminalStates
     /\ result.negotiation_summary.selection_reasoning.kind # "text"
     /\ prevResult.negotiation_summary.selection_reasoning.kind # "text")
    => result = prevResult

\* C9 (as claimed): the alternatives are ranked by overall score, highest
\* first, and equal scores by earliest start.
C9_RankedByScoreThenStart ==
    \A i, j \in 1..Len(alternative_slots) :
        i < j =>
            \/ alternative_slots[i].overall_score > alternative_slots[j].overall_score
            \/ /\ alternative_slots[i].overall_score = alternative_slots[j].overall_score
               /\ Instant(alternative_slots[i].start_time)
                     <= Instant(alternative_slots[j].start_time)

\* C10: every participant has an entry in the slot map; a participant whose
\* slot generation failed or found nothing has the empty list, the consensus
\* set is then empty, and a slot scheduled in Done was offered by everyone.
C10_MissingListEmptiesConsensus ==
    aggregatorCalls > 0 =>
        /\ \A j \in 1..Len(participants) :
              /\ participants[j].email \in DOMAIN all_available_slots
              /\ FindAvailableSlots(participants[j], request.date_ok,
                                    request.Duration_mins).raised
                    => all_available_slots[participants[j].email] = <<>>
        /\ (\E e \in DOMAIN all_available_slots : all_available_slots[e] = <<>>)
              => /\ common_slots = <<>>
                 /\ alternative_slots = <<>>
                 /\ pc \in {"NoAlternatives", "Failed"}
        /\ pc = "Done" =>
              \A e \in DOMAIN all_available_slots :
                  result.scheduled_slot \in KeysOf(all_available_slots[e])

\* One participant's slot generation raised while another offered slots
C10_Witness ==
    /\ pc = "Failed"
    /\ \E j \in 1..Len(participants) :
          /\ \E i \in 1..Len(participants[j].calendar) : ~participants[j].calendar[i].ok
          /\ all_available_slots[participants[j].email] = <<>>
    /\ \E e \in DOMAIN all_available_slots : all_available_slots[e] # <<>>

\* A per-participant task of p fails irrecoverably: an event of p's
\* calendar cannot be parsed
TaskFails(p) == \E i \in 1..Len(p.calendar) : ~p.calendar[i].ok

\* C11 (as claimed): when a participant's task fails irrecoverably the run
\* ends in an error of the negotiation: neither a success nor the
\* no-availability outcome.
C11_ParticipantFailurePropagates ==
    (pc \in TerminalStates /\ \E j \in 1..Len(participants) : TaskFails(participants[j]))
    => /\ ~result.success
       /\ result.reason # "No available slots found"

\* C12 (as claimed): a request with an empty participant set or a malformed
\* date is rejected before any slot generation or evaluation: no slot
\* generator call is made, and the run never ends in a success.
C12_InvalidRequestRejected ==
    (participants = <<>> \/ ~request.date_ok) =>
        /\ slotGenCalls = 0
        /\ pc \notin {"Accepted", "Done"}
        /\ pc \in TerminalStates => ~result.success

\* Minutes of the day at UTC, a day either side
Instants == (0 - 1440)..2880

\* Some instant lies both in the candidate widened by the buffer and in the
\* event, both taken as half-open intervals
SharesInstant(p, event) ==
    \E t \in Instants :
        /\ Instant(candidate.start_time) - p.preferences.buffer_minutes <= t
        /\ t < Instant(candidate.end_time) + p.preferences.buffer_minutes
        /\ Instant(event.StartTime) <= t
        /\ t < Instant(event.EndTime)

\* C13: _has_conflict reports a conflict iff some event shares an instant
\* with the candidate widened by the buffer on both ends (half-open
\* intervals); the offsets the timestamps are written in do not matter.
C13_ConflictIffBufferedOverlap ==
    pc = "Returned" =>
        /\ returned \in {"conflict", "free"}
        /\ returned = "conflict" <=>
              \E i \in 1..Len(participants[1].calendar) :
                  SharesInstant(participants[1], participants[1].calendar[i])

\* An event written at another offset begins exactly buffer minutes after the
\* candidate ends: no conflict
C13_Witness ==
    /\ pc = "Returned"
    /\ returned = "free"
    /\ \E i \in 1..Len(participants[1].calendar) :
          /\ Instant(participants[1].calendar[i].StartTime)
                = Instant(candidate.end_time)
                     + participants[1].preferences.buffer_minutes
          /\ participants[1].calendar[i].StartTime.off # candidate.end_time.off

\* The event of the scheduled meeting
MeetingEvent ==
    [ok |-> TRUE, StartTime |-> result.scheduled_slot.start_time,
     EndTime |-> result.scheduled_slot.end_time]

\* The attendees listed in the request and the requester
RequestParticipants ==
    {meeting_request.Attendees[i] : i \in 1..Len(meeting_request.Attendees)}
       \cup ({meeting_request.From} \ {""})

ExceptionRaised ==
    /\ pc = "Responded"
    /\ ~meeting_request.attendees_ok \/ ~meeting_request.complete

C17_SelectionWithinTopK ==
    pc = "Done" =>
        /\ selected_index \in 0..(TopK - 1)
        /\ \E i \in 1..Min(TopK, Len(alternative_slots)) :
              result.scheduled_slot = SlotKey(alternative_slots[i])
        /\ InTopK(result)

\* The transitions of the negotiation state machine
Transitions ==
    { <<"Init", "EvaluateRequested">>, <<"Init", "SearchAlternatives">>,
      <<"EvaluateRequested", "Accepted">>,
      <<"EvaluateRequested", "RequestedConflict">>,
      <<"RequestedConflict", "SearchAlternatives">>,
      <<"SearchAlternatives", "AlternativesFound">>,
      <<"SearchAlternatives", "NoAlternatives">>,
      <<"AlternativesFound", "SelectBest">>, <<"SelectBest", "Done">>,
      <<"NoAlternatives", "Failed">> }

\* C18: every step of a run is one of the transitions of the state machine
\* and none leaves a terminal state; EvaluateRequested is entered only with
\* a requested time; a result exists exactly in the terminal states; every
\* run reaches a terminal state.
C18_StateMachineTerminates ==
    /\ [][/\ <<pc, pc'>> \in Transitions
          /\ pc \notin TerminalStates
          /\ pc' = "EvaluateRequested" => request.suggested_time >= 0
          /\ pc' = "SearchAlternatives" /\ pc = "Init"
                => ~BuildRequestedTime(request).present]_vars
    /\ [](pc \in TerminalStates <=> result # NoResult)
    /\ <>[](pc \in TerminalStates)

\* A run through EvaluateRequested, RequestedConflict and the search to Done
C18_Witness ==
    /\ pc = "Done"
    /\ initial_result # NoInitialResult
    /\ result.success

\* Ten times the contribution of one evaluation to the claimed consensus score
ClaimedContribution(evaluation) ==
    IF evaluation.raised \/ evaluation.decision = "REJECT" THEN 0
    ELSE IF evaluation.decision = "CONDITIONAL_ACCEPT" THEN 7 * evaluation.preference_score
    ELSE 10 * evaluation.preference_score

\* C19: the consensus score of every scored slot is the mean over all
\* participants of 0 for a REJECT evaluation, 0.7 times the preference score
\* for CONDITIONAL_ACCEPT and the full preference score for ACCEPT
C19_ConsensusIsWeightedMean ==
    \A i \in 1..Len(scored_slots) :
        10 * Len(participants) * scored_slots[i].consensus_score
            = Lcm * SumSeq([k \in 1..Len(participants) |->
                    ClaimedContribution(EvaluateProposal(participants[k], scored_slots[i]))])

\* Hour of the slot's start on the participant's local clock
LocalHourOf(p, slot) ==
    ((Instant(slot.start_time) + p.preferences.timezone) \div 60) % 24

\* The tier the claim gives a local hour: upper ends 18 and 19 excluded
ClaimedTier(h) ==
    IF 9 <= h /\ h <= 17 THEN 1000
    ELSE IF 8 <= h /\ h < 18 THEN 800
    ELSE IF 7 <= h /\ h < 19 THEN 600
    ELSE 200

\* C20: the timezone fairness of a slot is the mean over the participants of
\* 1.0 for a local start hour in [9,17], 0.8 in [8,18), 0.6 in [7,19) and 0.2
\* otherwise, so that hour 18 scores 0.6 and hour 19 scores 0.2
C20_TimezoneFairnessTiers ==
    (pc = "FairnessReturned" /\ Len(participants) > 0)
        => Len(participants) * returned
             = Lcm * SumSeq([k \in 1..Len(participants) |->
                     ClaimedTier(LocalHourOf(participants[k], candidate))])

\* The preference score with the lunch penalty decided by the slot's interval
\* instead of its start hour
ScoreWithLunchPenalty(p, start_time, penalised) ==
    LET hour == HourOf(start_time)
        pt   == p.preferences.preferred_times
        bonus == IF "morning" \in pt /\ 9 <= hour /\ hour < 12 THEN 3
                 ELSE IF "afternoon" \in pt /\ 13 <= hour /\ hour < 17 THEN 3
                 ELSE IF "evening" \in pt /\ 17 <= hour /\ hour < 20 THEN 2
                 ELSE 0
        score == (5 + bonus - (IF penalised THEN 4 ELSE 0))
                    * (70 + 6 * p.preferences.seniority_weight)
    IN Max(0, Min(1000, score))

\* The slot's interval shares a minute with 12:00-14:00 on the local clock
OverlapsLunch(slot) ==
    slot.start_time.loc < 14 * 60 /\ slot.end_time.loc > 12 * 60

\* C21: the score of every generated slot carries the 0.4 lunch penalty
\* exactly when its participant avoids lunch and the slot's interval overlaps
\* 12:00-14:00
C21_LunchPenaltyByOverlap ==
    aggregatorCalls > 0 =>
        \A j \in 1..Len(participants) :
            LET p == participants[j]
                slots == all_available_slots[p.email]
            IN slots = FindAvailableSlots(p, request.date_ok, request.Duration_mins).slots
                  => \A i \in 1..Len(slots) :
                        slots[i].preference_score
                           = ScoreWithLunchPenalty(p, slots[i].start_time,
                                p.preferences.avoid_lunch /\ OverlapsLunch(slots[i]))

\* The grid intervals of the given duration inside 09:00-18:00 on p's clock
BusinessGrid(p, duration_mins) ==
    { [start_time |-> TS(s, p.preferences.timezone),
       end_time |-> TS(s + duration_mins, p.preferences.timezone)] :
      s \in { m \in (BusinessStartHour * 60)..(BusinessEndHour * 60) :
                 /\ (m - BusinessStartHour * 60) % SlotStepMinutes = 0
                 /\ m + duration_mins <= BusinessEndHour * 60 } }

\* C22: a call of the slot generator that returns gives exactly the grid
\* intervals of the requested duration inside business hours that do not
\* conflict with the participant's calendar, each once, and nothing when the
\* duration exceeds the nine-hour window
C22_GeneratedSlotsAreFreeGrid ==
    (pc = "SlotsReturned" /\ ~returned.raised) =>
        LET p == participants[1]
            d == request.Duration_mins
        IN /\ KeysOf(returned.slots)
                 = {g \in BusinessGrid(p, d) : FreeOfEvents(p, g)}
           /\ Cardinality(KeysOf(returned.slots)) = Len(returned.slots)
           /\ \A i \in 1..Len(returned.slots) :
                 /\ Instant(returned.slots[i].end_time)
                       - Instant(returned.slots[i].start_time) = d
                 /\ returned.slots[i].participant = p.email
           /\ d > (BusinessEndHour - BusinessStartHour) * 60 => returned.slots = <<>>

\* Busy 11:00-18:00: the 60-minute slots up to 09:45 are returned, the one
\* at 10:00 and the last of the grid, 17:00-18:00, are left out
C22_Witness ==
    /\ pc = "SlotsReturned"
    /\ ~returned.raised
    /\ request.Duration_mins = 60
    /\ participants[1].calendar = <<Event(660, 1080, IST)>>
    /\ participants[1].preferences.timezone = IST
    /\ KeysOf(returned.slots)
          = { [start_time |-> TS(540 + 15 * k, IST), end_time |-> TS(600 + 15 * k, IST)] :
              k \in 0..3 }

\* list holds at most n slots of the consensus set, in non-increasing
\* overall_score order, and no scored consensus slot outside it scores
\* strictly higher than one inside
IsTopOfConsensus(list, n) ==
    /\ Len(list) <= n
    /\ Len(list) = Min(n, Len(common_slots))
    /\ Cardinality(KeysOf(list)) = Len(list)
    /\ KeysOf(list) \subseteq KeysOf(common_slots)
    /\ \A i, j \in 1..Len(list) :
          i < j => list[i].overall_score >= list[j].overall_score
    /\ \A k \in 1..Len(scored_slots) :
          SlotKey(scored_slots[k]) \notin KeysOf(list)
             => \A i \in 1..Len(list) :
                   scored_slots[k].overall_score <= list[i].overall_score
    /\ \A i \in 1..Len(list) :
          \E k \in 1..Len(scored_slots) :
             /\ SlotKey(scored_slots[k]) = SlotKey(list[i])
             /\ scored_slots[k].overall_score = list[i].overall_score

\* C23: the ranked alternatives are the ten highest-scoring consensus slots
\* and the alternatives of a result reached through the alternatives path the
\* five highest-scoring ones, each list in non-increasing overall_score order
C23_AlternativesAreTopN ==
    /\ aggregatorCalls > 0 => IsTopOfConsensus(alternative_slots, MaxAlternatives)
    /\ pc = "Done" => IsTopOfConsensus(result.alternatives_considered, TopK)

\* More consensus slots than the result keeps, different scores inside its
\* list, and a lower-scoring consensus slot left out of it
C23_Witness ==
    /\ pc = "Done"
    /\ Len(common_slots) > TopK
    /\ Len(result.alternatives_considered) = TopK
    /\ result.alternatives_considered[1].overall_score
          > result.alternatives_considered[TopK].overall_score
    /\ \E k \in 1..Len(scored_slots) :
          /\ SlotKey(scored_slots[k]) \notin KeysOf(result.alternatives_considered)
          /\ scored_slots[k].overall_score
                < result.alternatives_considered[TopK].overall_score

\* The evaluations of the slot by the participants whose evaluation returns
ValidEvaluations(slot) ==
    SelectSeq(Tuple([k \in 1..Len(participants) |->
                        EvaluateProposal(participants[k], slot)], Len(participants)),
              LAMBDA e : ~e.raised)

\* C24: the overall score of a scored slot is 0.7 times its consensus score
\* plus 0.3 times its timezone fairness, lies between 0 and 1, and is fixed by
\* the slot and the participants' evaluations of it
C24_OverallScoreWeightedAndBounded ==
    pc = "Scored" =>
        LET evals == ValidEvaluations(candidate)
            prefs == SumSeq([k \in 1..Len(evals) |-> evals[k].preference_score])
        IN /\ returned.overall_score
                 = 7 * returned.consensus_score + 3 * returned.timezone_fairness
           /\ 0 <= returned.overall_score
           /\ returned.overall_score <= 10 * 1000 * Lcm
           /\ \A k \in 1..Len(evals) :
                 0 <= evals[k].preference_score /\ evals[k].preference_score <= 1000
           /\ Len(evals) * returned.consensus_score = Lcm * prefs
           /\ SlotKey(returned) = SlotKey(candidate)

\* A participant whose score for a preferred morning hour is cut down to 1
\* and one whose score is raised to 0: the overall score is 0.7 * 0.5 + 0.3
C24_Witness ==
    /\ pc = "Scored"
    /\ Len(participants) = 2
    /\ participants[1].preferences.seniority_weight = 30
    /\ participants[2].preferences.seniority_weight = 0 - 20
    /\ candidate.start_time = TS(600, IST)
    /\ returned.overall_score = (7 * 500 + 3 * 1000) * Lcm

\* The scores recorded for the slot with the given key in a list of scored slots
ScoresOf(list, key) ==
    { [consensus_score |-> list[i].consensus_score,
       timezone_fairness |-> list[i].timezone_fairness,
       overall_score |-> list[i].overall_score] :
      i \in {k \in 1..Len(list) : SlotKey(list[k]) = key} }

\* The consensus set and the scores of its slots are those of the first search
SameConsensusAndScores ==
    /\ KeysOf(common_slots) = KeysOf(returned.common_slots)
    /\ \A key \in KeysOf(common_slots) :
          ScoresOf(scored_slots, key) = ScoresOf(returned.scored_slots, key)

\* C25: with the participants passed in another order the search gives the
\* same consensus set, the same scores for each of its slots and the same
\* ranked alternatives
C25_AggregationCommutative ==
    (run = 2 /\ aggregatorCalls > 0) =>
        /\ SameConsensusAndScores
        /\ alternative_slots = returned.alternative_slots

\* C26: _has_conflict returns the same for every order of the calendar's events
C26_ConflictOrderIndependent ==
    pc = "ReturnedAgain" =>
        /\ returned \in {"conflict", "free"}
        /\ returned = prevResult

\* The only conflicting event is now the second of two
C26_Witness ==
    /\ pc = "ReturnedAgain"
    /\ Len(participants[1].calendar) = 2
    /\ ~SharesInstant(participants[1], participants[1].calendar[1])
    /\ SharesInstant(participants[1], participants[1].calendar[2])
    /\ returned = "conflict"
    /\ prevResult = "conflict"

\* C27: the per-participant tasks write nothing that is shared: no step of a
\* negotiation changes the responses held by the process-wide collector
C27_TasksShareNoMutableState ==
    [][business_metadata.participant_responses'
          = business_metadata.participant_responses]_vars

\* C28: the calendar the negotiation checks for each listed attendee, and the
\* calendar a failure response echoes for them, is the event list the request
\* supplied; a success response echoes it followed by the new meeting
C28_CalendarsComeFromRequest ==
    /\ (pc \in RunningStates \cup TerminalStates /\ meeting_request.attendees_ok) =>
          \A i \in 1..Len(meeting_request.Attendees) :
              participants[i].calendar = meeting_request.Events[i]
    /\ (pc = "Responded" /\ response.kind = "failure") =>
          \A i \in 1..Len(meeting_request.Attendees) :
              response.Attendees[i].events = meeting_request.Events[i]
    /\ (pc = "Responded" /\ response.kind = "success") =>
          \A i \in 1..Len(meeting_request.Attendees) :
              response.Attendees[i].events
                 = Append(meeting_request.Events[i], MeetingEvent)

\* Two participants' zones have different UTC offsets
ZonesDiffer ==
    \E j, k \in 1..Len(participants) :
        participants[j].preferences.timezone # participants[k].preferences.timezone

\* C29: participants in zones with different UTC offsets share no consensus
\* slot, since slots are matched by their timestamp text, and a negotiation
\* among them that reaches SearchAlternatives ends in Failed
C29_DifferentOffsetsNeverAgree ==
    /\ [](ZonesDiffer /\ aggregatorCalls > 0
             => common_slots = <<>> /\ pc \in {"NoAlternatives", "Failed"})
    /\ (ZonesDiffer /\ pc = "SearchAlternatives") ~> (pc = "Failed")

\* Both have free slots, and 14:30-15:00 IST is 09:00-09:30 UTC
C29_Witness ==
    /\ pc = "Failed"
    /\ ZonesDiffer
    /\ Len(participants) = 2
    /\ \A e \in DOMAIN all_available_slots :
          \E i \in 1..Len(all_available_slots[e]) :
              Instant(all_available_slots[e][i].start_time) = Instant(TS(870, IST))

\* C30: the reasoning summary of a success response names only participants
\* of the request it answers and only slots found while handling it
C30_ResponseDependsOnRequestOnly ==
    (pc = "Responded" /\ response.kind = "success") =>
        /\ DOMAIN response.agent_reasoning_summary.participant_responses
              \subseteq {participants[i].email : i \in 1..Len(participants)}
        /\ \A i \in 1..Len(response.agent_reasoning_summary.available_slots) :
              response.agent_reasoning_summary.available_slots[i]
                 \in KeysOf(alternative_slots)
        /\ response.agent_reasoning_summary.selected_slot = result.scheduled_slot

====
